---- MODULE Spec2Model ----
(***************************************************************************)
(* A model of zipit's static Huffman coder (huffman-encode-decode.py):     *)
(* HuffmanEncoder.compress, HuffmanDecoder.decompress and the helpers they *)
(* call.  Strings of "0"/"1" are sequences over {0, 1}; byte strings are   *)
(* sequences over 0..255; a dict is either an insertion-ordered sequence   *)
(* of items (frequency, whose iteration order matters) or a function       *)
(* (codes, reverse_mapping, which are only looked up).                     *)
(***************************************************************************)
EXTENDS Integers, Sequences, FiniteSets, TLC

\* ---- bounds of the model ------------------------------------------------
NumSymbols == 4      \* distinct byte values an input file may use
MaxLen == 6          \* longest input file, in bytes
MaxFreq == 3         \* largest count in a directly drawn frequency table
MaxBits == 11        \* longest directly drawn bit string

Symbols == 0..(NumSymbols - 1)      \* the byte values an input file may use

\* ---- Python values -------------------------------------------------------
None == <<>>         \* None as a node reference (HuffmanNode.left / .right)
NoChar == -1         \* None as HuffmanNode.char (no byte value is negative)

Min(a, b) == IF a < b THEN a ELSE b
Max(a, b) == IF a > b THEN a ELSE b

RECURSIVE Pow(_, _)
Pow(b, e) == IF e = 0 THEN 1 ELSE b * Pow(b, e - 1)

\* s[:e] of Python: a negative end counts from the tail, then it is clamped.
PySliceTo(s, e) ==
    LET e1 == IF e < 0 THEN e + Len(s) ELSE e
        e2 == Max(0, Min(e1, Len(s)))
    IN SubSeq(s, 1, e2)

\* s[b:] of Python for b >= 0.
PySliceFrom(s, b) == SubSeq(s, Min(b, Len(s)) + 1, Len(s))

\* int(s, 2) for a non-empty string of binary digits.
RECURSIVE Int2(_)
Int2(s) == IF Len(s) = 0 THEN 0
           ELSE 2 * Int2(SubSeq(s, 1, Len(s) - 1)) + s[Len(s)]

\* bin(n)[2:] : the binary digits of n with no leading zero ("0" for 0).
RECURSIVE Bin(_)
Bin(n) == IF n < 2 THEN <<n>> ELSE Append(Bin(n \div 2), n % 2)

\* s.rjust(w, '0')
RJust(s, w) == [i \in 1..(Max(w, Len(s)) - Len(s)) |-> 0] \o s

\* "{0:08b}".format(n)
Format08b(n) == RJust(Bin(n), 8)

\* n.to_bytes(k, byteorder='big'); OverflowError when n does not fit.
Fits(n, k) == n \div Pow(256, k - 1) < 256
ToBytes(n, k) == [i \in 1..k |-> (n \div Pow(256, k - i)) % 256]

\* int.from_bytes(b, byteorder='big')
RECURSIVE FromBytes(_)
FromBytes(b) == IF Len(b) = 0 THEN 0
                ELSE 256 * FromBytes(SubSeq(b, 1, Len(b) - 1)) + b[Len(b)]

\* ---- class HuffmanNode ---------------------------------------------------
HuffmanNode(char, freq, left, right) ==
    [char |-> char, freq |-> freq, left |-> left, right |-> right]

\* HuffmanNode.__lt__
Lt(self, other) == self.freq < other.freq

\* ---- heapq (positions are 0-based as in the library) ---------------------
RECURSIVE SiftDownLoop(_, _, _, _)
SiftDownLoop(heap, startpos, pos, newitem) ==
    IF pos > startpos
    THEN LET parentpos == (pos - 1) \div 2
             parent == heap[parentpos + 1]
         IN IF Lt(newitem, parent)
            THEN SiftDownLoop([heap EXCEPT ![pos + 1] = parent],
                              startpos, parentpos, newitem)
            ELSE [heap EXCEPT ![pos + 1] = newitem]
    ELSE [heap EXCEPT ![pos + 1] = newitem]

SiftDown(heap, startpos, pos) ==
    SiftDownLoop(heap, startpos, pos, heap[pos + 1])

RECURSIVE SiftUpLoop(_, _, _)
SiftUpLoop(heap, pos, endpos) ==
    LET childpos == 2 * pos + 1
        rightpos == childpos + 1
    IN IF childpos < endpos
       THEN LET c == IF rightpos < endpos
                        /\ ~Lt(heap[childpos + 1], heap[rightpos + 1])
                     THEN rightpos ELSE childpos
            IN SiftUpLoop([heap EXCEPT ![pos + 1] = heap[c + 1]], c, endpos)
       ELSE <<heap, pos>>

SiftUp(heap, pos) ==
    LET newitem == heap[pos + 1]
        r == SiftUpLoop(heap, pos, Len(heap))
    IN SiftDown([r[1] EXCEPT ![r[2] + 1] = newitem], pos, r[2])

HeapPush(heap, item) == SiftDown(Append(heap, item), 0, Len(heap))

\* heappop of a non-empty heap: the item returned and the heap left.
HeapPop(heap) ==
    LET lastelt == heap[Len(heap)]
        rest == SubSeq(heap, 1, Len(heap) - 1)
    IN IF Len(rest) > 0
       THEN [item |-> rest[1],
             heap |-> SiftUp([rest EXCEPT ![1] = lastelt], 0)]
       ELSE [item |-> lastelt, heap |-> rest]

\* ---- class HuffmanEncoder ------------------------------------------------
\* frequency[char] = v on an insertion-ordered dict: a present key keeps its
\* place, a new key goes last.
DictSet(d, char, v) ==
    IF \E i \in 1..Len(d) : d[i].char = char
    THEN [i \in 1..Len(d) |->
             IF d[i].char = char THEN [char |-> char, freq |-> v] ELSE d[i]]
    ELSE Append(d, [char |-> char, freq |-> v])

\* frequency[char] of a defaultdict(int)
DictGet(d, char) ==
    IF \E i \in 1..Len(d) : d[i].char = char
    THEN (CHOOSE it \in {d[i] : i \in 1..Len(d)} : it.char = char).freq
    ELSE 0

RECURSIVE BuildFrequencyLoop(_, _)
BuildFrequencyLoop(data, frequency) ==
    IF Len(data) = 0 THEN frequency
    ELSE BuildFrequencyLoop(Tail(data),
             DictSet(frequency, Head(data), DictGet(frequency, Head(data)) + 1))

BuildFrequencyDict(data) == BuildFrequencyLoop(data, <<>>)

RECURSIVE BuildHeapLoop(_, _)
BuildHeapLoop(items, heap) ==
    IF Len(items) = 0 THEN heap
    ELSE BuildHeapLoop(Tail(items),
             HeapPush(heap, HuffmanNode(Head(items).char, Head(items).freq,
                                        None, None)))

BuildHeap(frequency) == BuildHeapLoop(frequency, <<>>)

RECURSIVE MergeLoop(_)
MergeLoop(heap) ==
    IF Len(heap) > 1
    THEN LET p1 == HeapPop(heap)
             p2 == HeapPop(p1.heap)
             node1 == p1.item
             node2 == p2.item
             merged == HuffmanNode(NoChar, node1.freq + node2.freq,
                                   node1, node2)
         IN MergeLoop(HeapPush(p2.heap, merged))
    ELSE heap

\* heap[0] of an empty list raises IndexError.
BuildHuffmanTree(heap) ==
    LET h == MergeLoop(heap)
    IN IF Len(h) = 0 THEN [exc |-> "IndexError", root |-> None]
       ELSE [exc |-> "None", root |-> h[1]]

NoMaps == [codes |-> <<>>, reverse_mapping |-> <<>>]

RECURSIVE BuildCodesHelperSameBit(_, _, _)
BuildCodesHelperSameBit(root, current_code, maps) ==
    IF root = None THEN maps
    ELSE IF root.char # NoChar
    THEN [codes |-> (root.char :> current_code) @@ maps.codes,
          reverse_mapping |->
              (current_code :> root.char) @@ maps.reverse_mapping]
    ELSE BuildCodesHelperSameBit(root.right, Append(current_code, 0),
             BuildCodesHelperSameBit(root.left, Append(current_code, 0), maps))

RECURSIVE BuildCodesHelper(_, _, _)
BuildCodesHelper(root, current_code, maps) ==
    IF root = None THEN maps
    ELSE IF root.char # NoChar
    THEN [codes |-> (root.char :> current_code) @@ maps.codes,
          reverse_mapping |->
              (current_code :> root.char) @@ maps.reverse_mapping]
    ELSE BuildCodesHelper(root.right, Append(current_code, 1),
             BuildCodesHelper(root.left, Append(current_code, 0), maps))

BuildCodes(root) == BuildCodesHelper(root, <<>>, NoMaps)

RECURSIVE GetEncodedText(_, _)
GetEncodedText(data, codes) ==
    IF Len(data) = 0 THEN <<>>
    ELSE codes[Head(data)] \o GetEncodedText(Tail(data), codes)

ExtraPadding(encoded_text) == 8 - (Len(encoded_text) % 8)

PadEncodedTextShort(encoded_text) ==
    LET extra_padding == Len(encoded_text) % 8
        padded_info == Format08b(extra_padding)
    IN padded_info \o encoded_text \o [i \in 1..extra_padding |-> 0]

PadEncodedText(encoded_text) ==
    LET extra_padding == ExtraPadding(encoded_text)
        padded_info == Format08b(extra_padding)
    IN padded_info \o encoded_text \o [i \in 1..extra_padding |-> 0]

\* exit(0) on a length that is no multiple of 8, else the packed bytes.
GetByteArray(padded_encoded_text) ==
    IF Len(padded_encoded_text) % 8 # 0
    THEN [exc |-> "SystemExit", b |-> <<>>]
    ELSE [exc |-> "None",
          b |-> [i \in 1..(Len(padded_encoded_text) \div 8) |->
                    Int2(SubSeq(padded_encoded_text, 8 * i - 7, 8 * i))]]

\* The records of the frequency dictionary as compress writes them.
RECURSIVE WriteItems(_)
WriteItems(items) ==
    IF Len(items) = 0 THEN <<>>
    ELSE <<Head(items).char>> \o ToBytes(Head(items).freq, 4)
         \o WriteItems(Tail(items))

\* compress, stage by stage; each stage is handed the locals computed so far.
\* build_huffman_tree raises before the output file is opened; to_bytes raises
\* while it is written.
CompressFailed(e, frequency) ==
    [exc |-> e, frequency |-> frequency, codes |-> <<>>,
     encoded_text |-> <<>>, file |-> <<>>]

\* with open(output_path, 'wb') as output: ...
CompressWrite(frequency, codes, encoded_text, byte_array) ==
    IF byte_array.exc # "None" THEN CompressFailed(byte_array.exc, frequency)
    ELSE IF ~Fits(Len(frequency), 2)
            \/ \E i \in 1..Len(frequency) : ~Fits(frequency[i].freq, 4)
    THEN CompressFailed("OverflowError", frequency)
    ELSE [exc |-> "None", frequency |-> frequency, codes |-> codes,
          encoded_text |-> encoded_text,
          file |-> ToBytes(Len(frequency), 2) \o WriteItems(frequency)
                   \o byte_array.b]

\* padded_encoded_text = ...; byte_array = ...
CompressPack(frequency, codes, encoded_text) ==
    CompressWrite(frequency, codes, encoded_text,
                  GetByteArray(PadEncodedText(encoded_text)))

\* self.build_codes(root); encoded_text = self.get_encoded_text(data)
CompressEncode(data, frequency, tree) ==
    IF tree.exc # "None" THEN CompressFailed(tree.exc, frequency)
    ELSE CompressPack(frequency, BuildCodes(tree.root).codes,
                      GetEncodedText(data, BuildCodes(tree.root).codes))

\* heap = self.build_heap(frequency); root = self.build_huffman_tree(heap)
CompressTree(data, frequency) ==
    CompressEncode(data, frequency, BuildHuffmanTree(BuildHeap(frequency)))

\* The whole of compress up to the bytes of the output file.
CompressFile(data) == CompressTree(data, BuildFrequencyDict(data))

\* ---- class HuffmanDecoder ------------------------------------------------
\* int("", 2) raises ValueError.
RemovePaddingKeep(padded_encoded_text) ==
    LET padded_info == PySliceTo(padded_encoded_text, 8)
    IN IF Len(padded_info) = 0
       THEN [exc |-> "ValueError", encoded_text |-> <<>>]
       ELSE [exc |-> "None",
             encoded_text |-> PySliceFrom(padded_encoded_text, 8)]

RemovePadding(padded_encoded_text) ==
    LET padded_info == PySliceTo(padded_encoded_text, 8)
        extra_padding == Int2(padded_info)
        rest == PySliceFrom(padded_encoded_text, 8)
    IN IF Len(padded_info) = 0
       THEN [exc |-> "ValueError", encoded_text |-> <<>>]
       ELSE [exc |-> "None",
             encoded_text |-> PySliceTo(rest, (-1) * extra_padding)]

\* The loop of decode_text; current_code is its accumulator at loop exit.
RECURSIVE DecodeLoop(_, _, _, _)
DecodeLoop(encoded_text, reverse_mapping, current_code, decoded_text) ==
    IF Len(encoded_text) = 0
    THEN [decoded_text |-> decoded_text, current_code |-> current_code]
    ELSE LET code == Append(current_code, Head(encoded_text))
         IN IF code \in DOMAIN reverse_mapping
            THEN DecodeLoop(Tail(encoded_text), reverse_mapping, <<>>,
                            Append(decoded_text, reverse_mapping[code]))
            ELSE DecodeLoop(Tail(encoded_text), reverse_mapping, code,
                            decoded_text)

DecodeText(encoded_text, reverse_mapping) ==
    DecodeLoop(encoded_text, reverse_mapping, <<>>, <<>>)

\* file.read(n) at offset pos: short at the end of the file.
Read(file, pos, n) == SubSeq(file, pos + 1, Min(pos + n, Len(file)))

\* The records loop of decompress; file.read(1)[0] raises IndexError at the
\* end of the file.
RECURSIVE ReadFrequencyLoop(_, _, _, _)
ReadFrequencyLoop(file, pos, n, frequency) ==
    IF n = 0 THEN [exc |-> "None", frequency |-> frequency, pos |-> pos]
    ELSE IF pos >= Len(file)
    THEN [exc |-> "IndexError", frequency |-> frequency, pos |-> pos]
    ELSE LET char == file[pos + 1]
             raw == Read(file, pos + 1, 4)
         IN ReadFrequencyLoop(file, pos + 1 + Len(raw), n - 1,
                              DictSet(frequency, char, FromBytes(raw)))

ReadFrequencyReversed(file) ==
    LET r == ReadFrequencyLoop(file, Len(Read(file, 0, 2)),
                               FromBytes(Read(file, 0, 2)), <<>>)
        f == r.frequency
    IN [r EXCEPT !.frequency = [i \in 1..Len(f) |-> f[Len(f) + 1 - i]]]

ReadFrequency(file) ==
    ReadFrequencyLoop(file, Len(Read(file, 0, 2)),
                      FromBytes(Read(file, 0, 2)), <<>>)

\* bin(byte)[2:].rjust(8, '0') of every remaining byte, concatenated.
RECURSIVE BitString(_)
BitString(bytes) ==
    IF Len(bytes) = 0 THEN <<>>
    ELSE RJust(Bin(Head(bytes)), 8) \o BitString(Tail(bytes))

\* decompress, stage by stage; each stage is handed the locals computed so far.
DecompressFailed(e) ==
    [exc |-> e, codes |-> <<>>, decompressed_data |-> <<>>,
     current_code |-> <<>>]

\* decompressed_data = self.decode_text(encoded_text)
DecompressDecode(maps, unpadded) ==
    IF unpadded.exc # "None" THEN DecompressFailed(unpadded.exc)
    ELSE [exc |-> "None", codes |-> maps.codes,
          decompressed_data |->
              DecodeText(unpadded.encoded_text,
                         maps.reverse_mapping).decoded_text,
          current_code |->
              DecodeText(unpadded.encoded_text,
                         maps.reverse_mapping).current_code]

\* encoder.build_codes(root); read remaining data; remove_padding
DecompressBits(file, table, tree) ==
    IF tree.exc # "None" THEN DecompressFailed(tree.exc)
    ELSE DecompressDecode(BuildCodes(tree.root),
             RemovePadding(BitString(PySliceFrom(file, table.pos))))

\* heap = encoder.build_heap(frequency); root = ...
DecompressTree(file, table) ==
    IF table.exc # "None" THEN DecompressFailed(table.exc)
    ELSE DecompressBits(file, table,
                        BuildHuffmanTree(BuildHeap(table.frequency)))

\* The whole of decompress up to the bytes of the output file.
DecompressFile(file) == DecompressTree(file, ReadFrequency(file))

\* ---- state -----------------------------------------------------------------
VARIABLES
    pc,                 \* where the run is
    data,               \* bytes of the file given to compress
    frequency,          \* the frequency table, in insertion order
    codes,              \* HuffmanEncoder.codes after build_codes
    encoded_text,       \* the bit string compress / pad_encoded_text is given
    container,          \* bytes of the compressed file
    truncated,          \* the compressed file lost its last byte
    exc,                \* exception of the last operation, "None" if none
    dec_codes,          \* codes of the encoder decompress builds
    decompressed_data,  \* bytes decompress writes
    current_code,       \* accumulator of decode_text at its end
    padded,             \* result of pad_encoded_text
    byte_array,         \* result of get_byte_array
    unpadded            \* result of remove_padding

vars == <<pc, data, frequency, codes, encoded_text, container, truncated, exc,
          dec_codes, decompressed_data, current_code, padded, byte_array,
          unpadded>>

SeqsUpTo(S, n) == UNION {[1..k -> S] : k \in 0..n}

Blank ==
    /\ pc = "start"
    /\ codes = <<>>
    /\ container = <<>>
    /\ truncated = FALSE
    /\ exc = "None"
    /\ dec_codes = <<>>
    /\ decompressed_data = <<>>
    /\ current_code = <<>>
    /\ padded = <<>>
    /\ byte_array = <<>>
    /\ unpadded = <<>>

\* ---- compress, then decompress, of one file --------------------------------
Init ==
    /\ Blank
    /\ data \in SeqsUpTo(Symbols, MaxLen)
    /\ frequency = <<>>
    /\ encoded_text = <<>>

Compress ==
    /\ pc = "start"
    /\ LET r == CompressFile(data)
       IN /\ exc' = r.exc
          /\ frequency' = r.frequency
          /\ codes' = r.codes
          /\ encoded_text' = r.encoded_text
          /\ container' = r.file
          /\ pc' = IF r.exc = "None" THEN "compressed" ELSE "crashed"
    /\ UNCHANGED <<data, truncated, dec_codes, decompressed_data, current_code,
                   padded, byte_array, unpadded>>

\* The compressed file loses its trailing byte before it is decoded.
Truncate ==
    /\ pc = "compressed"
    /\ ~truncated
    /\ Len(container) > 0
    /\ container' = SubSeq(container, 1, Len(container) - 1)
    /\ truncated' = TRUE
    /\ UNCHANGED <<pc, data, frequency, codes, encoded_text, exc, dec_codes,
                   decompressed_data, current_code, padded, byte_array,
                   unpadded>>

Decompress ==
    /\ pc = "compressed"
    /\ LET r == DecompressFile(container)
       IN /\ exc' = r.exc
          /\ dec_codes' = r.codes
          /\ decompressed_data' = r.decompressed_data
          /\ current_code' = r.current_code
    /\ pc' = "decompressed"
    /\ UNCHANGED <<data, frequency, codes, encoded_text, container, truncated,
                   padded, byte_array, unpadded>>

Next == Compress \/ Truncate \/ Decompress

Spec == Init /\ [][Next]_vars

\* ---- the code table of a frequency table -----------------------------------
FrequencyTables ==
    {f \in SeqsUpTo([char : Symbols, freq : 1..MaxFreq], NumSymbols) :
        \A i, j \in 1..Len(f) : i # j => f[i].char # f[j].char}

InitTree ==
    /\ Blank
    /\ data = <<>>
    /\ frequency \in FrequencyTables
    /\ encoded_text = <<>>

BuildCodeTable ==
    /\ pc = "start"
    /\ LET tree == BuildHuffmanTree(BuildHeap(frequency))
       IN /\ exc' = tree.exc
          /\ codes' = BuildCodes(tree.root).codes
          /\ pc' = IF tree.exc = "None" THEN "built" ELSE "crashed"
    /\ UNCHANGED <<data, frequency, encoded_text, container, truncated,
                   dec_codes, decompressed_data, current_code, padded,
                   byte_array, unpadded>>

NextTree == BuildCodeTable

SpecTree == InitTree /\ [][NextTree]_vars

\* ---- padding, packing and unpadding of a bit string ------------------------
InitBits ==
    /\ Blank
    /\ data = <<>>
    /\ frequency = <<>>
    /\ encoded_text \in SeqsUpTo({0, 1}, MaxBits)

Pad ==
    /\ pc = "start"
    /\ padded' = PadEncodedText(encoded_text)
    /\ pc' = "padded"
    /\ UNCHANGED <<data, frequency, codes, encoded_text, container, truncated,
                   exc, dec_codes, decompressed_data, current_code, byte_array,
                   unpadded>>

Pack ==
    /\ pc = "padded"
    /\ LET r == GetByteArray(padded)
       IN /\ exc' = r.exc
          /\ byte_array' = r.b
    /\ pc' = "packed"
    /\ UNCHANGED <<data, frequency, codes, encoded_text, container, truncated,
                   dec_codes, decompressed_data, current_code, padded,
                   unpadded>>

Unpad ==
    /\ pc = "start"
    /\ LET r == RemovePadding(encoded_text)
       IN /\ exc' = r.exc
          /\ unpadded' = r.encoded_text
    /\ pc' = "unpadded"
    /\ UNCHANGED <<data, frequency, codes, encoded_text, container, truncated,
                   dec_codes, decompressed_data, current_code, padded,
                   byte_array>>

NextBits == Pad \/ Pack \/ Unpad

SpecBits == InitBits /\ [][NextBits]_vars

\* ---- properties --------------------------------------------------------------
DistinctBytes(s) == {s[i] : i \in 1..Len(s)}

IsPrefix(s, t) == Len(s) <= Len(t) /\ SubSeq(t, 1, Len(s)) = s

\* The padding-count field of a padded bit string, read back.
PaddingField(p) == Int2(SubSeq(p, 1, 8))

\* The number of bits pad_encoded_text put after the data bits.
Appended == Len(padded) - 8 - Len(encoded_text)

\* C1: compress never fails, and decompress of the file compress wrote
\* succeeds and returns exactly the bytes compress was given, whatever the
\* input (empty and single-valued inputs included).
RoundTrip ==
    ~truncated =>
        /\ pc # "crashed"
        /\ pc = "decompressed" => exc = "None" /\ decompressed_data = data

\* C2: every code of the code table built from a non-empty frequency table
\* has at least one bit, a table of one entry included.
NonEmptyCodes ==
    pc = "built" /\ Len(frequency) > 0 =>
        \A c \in DOMAIN codes : Len(codes[c]) >= 1

\* C3: decompress of a compressed file that lost its last byte ends in a
\* reported error; it never completes normally with bytes other than the
\* input.
CorruptionDetected ==
    pc = "decompressed" /\ truncated => exc # "None"

\* C4: compress of a zero-length input completes without raising and
\* produces a container.
EmptyInputCompresses ==
    Len(data) = 0 /\ pc # "start" =>
        pc # "crashed" /\ exc = "None" /\ Len(container) > 0

\* C5: for a non-empty input, the code table decompress rebuilds from the
\* stored (symbol, count) records is the code table compress encoded with,
\* ties between equal frequencies included.
FrequencyTableFidelity ==
    pc = "decompressed" /\ ~truncated /\ Len(data) > 0 =>
        exc = "None" /\ dec_codes = codes

FidelityWitness ==
    /\ pc = "decompressed"
    /\ ~truncated
    /\ Cardinality(DOMAIN codes) >= 3
    /\ \E i, j \in 1..Len(frequency) :
           i # j /\ frequency[i].freq = frequency[j].freq
    /\ dec_codes = codes

\* C6: in the code table built from a non-empty frequency table every symbol
\* of the table has a code, and the code of one symbol is never a prefix of,
\* nor equal to, the code of another.
PrefixFree ==
    pc = "built" /\ Len(frequency) > 0 =>
        /\ DOMAIN codes = {frequency[i].char : i \in 1..Len(frequency)}
        /\ \A a, b \in DOMAIN codes :
               a # b => ~IsPrefix(codes[a], codes[b])

PrefixFreeWitness ==
    /\ pc = "built"
    /\ Cardinality(DOMAIN codes) >= 3
    /\ \E a, b \in DOMAIN codes : Len(codes[a]) < Len(codes[b])

\* C7: the result of pad_encoded_text is the 8-bit field, the data bits and
\* then only zero bits; its length is a multiple of 8, so get_byte_array
\* does not exit; and the field holds the number of zero bits appended.
PaddingCorrect ==
    pc \in {"padded", "packed"} =>
        /\ Len(padded) % 8 = 0
        /\ Appended >= 0
        /\ PaddingField(padded) = Appended
        /\ SubSeq(padded, 9, 8 + Len(encoded_text)) = encoded_text
        /\ \A i \in (9 + Len(encoded_text))..Len(padded) : padded[i] = 0
        /\ pc = "packed" =>
               exc = "None" /\ 8 * Len(byte_array) = Len(padded)

PaddingWitness ==
    /\ pc = "packed"
    /\ exc = "None"
    /\ Len(encoded_text) = 3
    /\ PaddingField(padded) = 5
    /\ Len(byte_array) = 2

\* C8: pad_encoded_text appends the least number of zero bits, between 0 and
\* 7, that makes the data length a multiple of 8, and stores that number in
\* the field: none when the length already is a multiple of 8.
MinimalPadding ==
    pc = "padded" =>
        /\ Appended = (8 - (Len(encoded_text) % 8)) % 8
        /\ PaddingField(padded) = Appended

\* C9: when the first 8 bits hold p in 0..7, remove_padding returns the bits
\* after them without the last p: all of them when p = 0.
PaddingStripped ==
    pc = "unpadded" /\ Len(encoded_text) >= 8 =>
        LET p == PaddingField(encoded_text)
            rest == SubSeq(encoded_text, 9, Len(encoded_text))
        IN p \in 0..7 /\ p <= Len(rest) =>
               exc = "None" /\ unpadded = SubSeq(rest, 1, Len(rest) - p)

\* C10: for an input with at least two distinct byte values, decompress of
\* the file compress wrote returns exactly the input, and decode_text ends
\* with an empty accumulator.
RoundTripTwoSymbols ==
    pc = "decompressed" /\ ~truncated /\ Cardinality(DistinctBytes(data)) >= 2 =>
        /\ exc = "None"
        /\ decompressed_data = data
        /\ current_code = <<>>

RoundTripWitness ==
    /\ pc = "decompressed"
    /\ ~truncated
    /\ Cardinality(DistinctBytes(data)) >= 3
    /\ Len(encoded_text) = 8
    /\ decompressed_data = data
    /\ current_code = <<>>
====
